---- MODULE Spec2Model ----
(***************************************************************************)
(* A model of gdal_viirs: the swath-to-grid indexer (process_geoloc_file), *)
(* the composite assembler (_process_band_files, process_fileset), the     *)
(* NDVI dynamics product (process_ndvi_dynamics) and the batch driver      *)
(* (ViirsProcessor.process_recent_files).                                  *)
(*                                                                         *)
(* Floating point values are records [k, v]: k = "fin" with the value v,   *)
(* or k = "nan", "inf", "ninf" (v = 0).  Arrays are flattened to           *)
(* sequences in iteration (row-major) order.                               *)
(***************************************************************************)
EXTENDS Integers, Sequences, FiniteSets, TLC

VARIABLES
    lat, lon,          \* the Latitude and Longitude datasets, in degrees
    proj_x, proj_y,    \* what projection(lon_masked, lat_masked) answers
    scale,             \* metres per pixel
    geofile,           \* the geolocation file's descriptor
    geoloc,            \* the outcome of process_geoloc_file
    band_files,        \* fileset.band_files, the band descriptors in order
    trim,              \* process_fileset's trim argument
    pc,                \* where process_fileset stands
    raised,            \* the exception process_fileset raised, "" for none
    bands,             \* the outcome of _process_band_files
    output_file,       \* what process_fileset wrote
    now,               \* the clock: every reading of it is later than the last
    mtime,             \* each search directory's modification time
    content,           \* each search directory's file sets, in listing order
    db,                \* persistence: the file sets add_fileset recorded
    last_check_time,   \* persistence: the meta value 'last_check_time'
    run_pc,            \* where process_recent_files stands
    run_dirs,          \* the directories find_filesets scanned for this run
    run_list,          \* the file sets find_filesets returned to this run
    run_pos,           \* the position of the loop in run_list
    run_invoked,       \* the file sets _process_fileset was called with, this run
    run_failed_at,     \* the position whose processing raised, 0 for none
    run_outcome,       \* how the last process_recent_files call ended
    runs,              \* process_recent_files calls so far
    added,             \* add_fileset calls so far, per file set
    last_call,         \* what the last _process_fileset call did
    logged,            \* the logger's records so far
    b1_data, b2_data,  \* the two rasters read, cropped to their intersection
    b3,                \* the raster process_ndvi_dynamics writes
    svi01, svi02,      \* bands 1 and 2 of process_ndvi's input file
    cloud_mask_file,   \* process_ndvi's cloud classification raster, if any
    ndvi_raster,       \* the raster process_ndvi writes
    scattered,         \* process_band_file's image after the scatter
    band_image         \* what process_band_file returned

geolocVars == <<lat, lon, proj_x, proj_y, scale, geofile, geoloc>>
filesetVars == <<band_files, trim, pc, raised, bands, output_file>>

batchVars == <<now, mtime, content, db, last_check_time, run_pc, run_dirs, run_list,
               run_pos, run_invoked, run_failed_at, run_outcome, runs, added,
               last_call, logged>>
dynVars == <<b1_data, b2_data, b3>>
ndviVars == <<svi01, svi02, cloud_mask_file, ndvi_raster>>
bandVars == <<scattered, band_image>>

vars == <<lat, lon, proj_x, proj_y, scale, geofile, geoloc,
          band_files, trim, pc, raised, bands, output_file,
          now, mtime, content, db, last_check_time, run_pc, run_dirs, run_list,
          run_pos, run_invoked, run_failed_at, run_outcome, runs, added,
          last_call, logged, b1_data, b2_data, b3,
          svi01, svi02, cloud_mask_file, ndvi_raster, scattered, band_image>>

\* ------------------------------------------------------------------ bounds
MaxSamples == 3
MaxPixels == 2
MaxBands == 2
MaxFilesets == 2
MaxRuns == 2
MaxDynPixels == 2
MaxNdviPixels == 2

\* ------------------------------------------------------------ float values
Fin(n) == [k |-> "fin", v |-> n]
NaN == [k |-> "nan", v |-> 0]
PInf == [k |-> "inf", v |-> 0]
NInf == [k |-> "ninf", v |-> 0]

isfinite(f) == f.k = "fin"
isnan(f) == f.k = "nan"

\* np.all(np.isfinite(a)): true of the empty array
all_isfinite(a) == \A i \in 1..Len(a) : isfinite(a[i])

\* ----------------------------------------------------------- array helpers
RECURSIVE SeqMin(_)
SeqMin(s) ==
    IF Len(s) = 0 THEN 0
    ELSE IF Len(s) = 1 THEN s[1]
    ELSE LET m == SeqMin(Tail(s)) IN IF s[1] < m THEN s[1] ELSE m

RECURSIVE SeqMax(_)
SeqMax(s) ==
    IF Len(s) = 0 THEN 0
    ELSE IF Len(s) = 1 THEN s[1]
    ELSE LET m == SeqMax(Tail(s)) IN IF s[1] > m THEN s[1] ELSE m

\* a[mask]: the elements of a the boolean mask selects, in order
RECURSIVE BoolIndex(_, _)
BoolIndex(a, mask) ==
    IF Len(a) = 0 THEN <<>>
    ELSE IF mask[1] THEN <<a[1]>> \o BoolIndex(Tail(a), Tail(mask))
    ELSE BoolIndex(Tail(a), Tail(mask))

\* np.round of n/d (d > 0): to the nearest integer, ties to the even one
np_round(n, d) ==
    LET q == n \div d
        r == n % d
    IN  IF 2 * r < d THEN q
        ELSE IF 2 * r > d THEN q + 1
        ELSE IF q % 2 = 0 THEN q ELSE q + 1

\* ------------------------------------------------------ process_geoloc_file
\* Projected coordinates are floats whose finite values count half metres, so
\* that np.round(x_index) has ties to settle.

\* lonlat_mask = (lon > -200) * (lat > -200)
lonlat_mask(lo, la) == [i \in 1..Len(lo) |-> lo[i] > -200 /\ la[i] > -200]

\* The two isfinite assertions: both of them read x_index.
finite_asserts(x, y) == all_isfinite(x) /\ all_isfinite(x)

\* what the cast of a non-finite float to an integer may give (stand-ins for
\* the platform's values, the smallest integer among them)
CastVals == {-64, 0}

\* np.int_(np.round(a)): a finite value rounds to the nearest metre; the cast
\* of a non-finite value to an integer is undefined, cast[i] is what it gives.
int_round(a, cast) ==
    [i \in 1..Len(a) |->
        IF isfinite(a[i]) THEN np_round(a[i].v, 2) ELSE cast[i]]

\* np.int_(np.round(a / scale))
scale_index(a, sc) == [i \in 1..Len(a) |-> np_round(a[i], sc)]

\* a -= a.min()
shift_to_zero(a) == [i \in 1..Len(a) |-> a[i] - SeqMin(a)]

\* a zero-size array whose minimum is taken without an error
min_raises_never(a) == FALSE

\* x_index.min() of a zero-size array raises ValueError
min_raises(a) == Len(a) = 0

\* the shape without the + 1
out_image_shape_max(x_index, y_index) == <<SeqMax(y_index), SeqMax(x_index)>>

\* out_image_shape = y_index.max() + 1, x_index.max() + 1
out_image_shape(x_index, y_index) == <<SeqMax(y_index) + 1, SeqMax(x_index) + 1>>

NoGeoloc(st) ==
    [status |-> st, x_index |-> <<>>, y_index |-> <<>>, lonlat_mask |-> <<>>,
     geotransform_max_y |-> 0, geotransform_min_x |-> 0, scale |-> 0,
     out_image_shape |-> <<0, 0>>]

process_geoloc_file(gf, la, lo, px, py, sc, cast) ==
    IF ~gf.is_geoloc THEN NoGeoloc("AssertionError")
    ELSE IF ~gf.has_latlon THEN NoGeoloc("SubDatasetNotFound")
    ELSE
    LET mask == lonlat_mask(lo, la)
        x0 == int_round(px, cast)
        y0 == int_round(py, cast)
        x1 == shift_to_zero(scale_index(x0, sc))
        y1 == shift_to_zero(scale_index(y0, sc))
    IN  IF Len(px) # Len(py) THEN NoGeoloc("AssertionError")
        ELSE IF ~finite_asserts(px, py) THEN NoGeoloc("AssertionError")
        ELSE IF min_raises(x0) THEN NoGeoloc("ValueError")
        ELSE [status |-> "ok", x_index |-> x1, y_index |-> y1,
              lonlat_mask |-> mask,
              geotransform_max_y |-> SeqMax(y0),
              geotransform_min_x |-> SeqMin(x0),
              scale |-> sc,
              out_image_shape |-> out_image_shape(x1, y1)]

\* -------------------------------------------------------- process_band_file
\* The sensor's fill codes (gdal_viirs.const) and the saturation threshold.
ND_NA == 65535
ND_OBPT == 65533
no_data_threshold == 60000

\* A grid is [shape |-> <<rows, cols>>, at |-> [<<r, c>> |-> float]], 0-based.
Cells(shape) == (0..(shape[1] - 1)) \X (0..(shape[2] - 1))
full(shape, f) == [shape |-> shape, at |-> [rc \in Cells(shape) |-> f]]

\* float comparisons and arithmetic, as far as the band values need them
f_eq(f, n) == f.k = "fin" /\ f.v = n
f_gt(f, n) == (f.k = "fin" /\ f.v > n) \/ f.k = "inf"
f_muladd(f, a, b) == IF f.k = "fin" THEN Fin(f.v * a + b) ELSE f

\* arr[sdr_mask > 32] = ND_NA
apply_sdr_mask(arr, sdr) ==
    [i \in 1..Len(arr) |-> IF sdr[i] > 32 THEN ND_NA ELSE arr[i]]

\* the samples written to cell rc, by their position in the masked array
Hits(rc, x_index, y_index) ==
    {i \in 1..Len(x_index) : y_index[i] = rc[1] /\ x_index[i] = rc[2]}

SetMax(S) == CHOOSE m \in S : \A n \in S : n <= m
SetMin(S) == CHOOSE m \in S : \A n \in S : m <= n

\* a scatter that keeps the first sample written to a cell
scatter_first(arr, x_index, y_index, shape) ==
    [shape |-> shape,
     at |-> [rc \in Cells(shape) |->
                IF Hits(rc, x_index, y_index) = {} THEN Fin(0)
                ELSE Fin(arr[SetMin(Hits(rc, x_index, y_index))])]]

\* image = np.zeros(image_shape); image[y_index, x_index] = arr
scatter(arr, x_index, y_index, shape) ==
    [shape |-> shape,
     at |-> [rc \in Cells(shape) |->
                IF Hits(rc, x_index, y_index) = {} THEN Fin(0)
                ELSE Fin(arr[SetMax(Hits(rc, x_index, y_index))])]]

\* np.flip(image, 0)
flip(image) ==
    [shape |-> image.shape,
     at |-> [rc \in Cells(image.shape) |->
                image.at[<<image.shape[1] - 1 - rc[1], rc[2]>>]]]

\* image[image == ND_OBPT] = 0; image[np.isnan(image)] = 0
zero_fill_codes(image) ==
    [shape |-> image.shape,
     at |-> [rc \in Cells(image.shape) |->
                IF f_eq(image.at[rc], ND_OBPT) \/ isnan(image.at[rc]) THEN Fin(0)
                ELSE image.at[rc]]]

\* rasterio.fill.fillnodata(arr, arr != nd_value, smoothing_iterations=0,
\* max_search_distance): a cell equal to nd_value takes the value of the
\* nearest cell that is not, when one lies within the search distance.
Dist2(p, q) == (p[1] - q[1]) * (p[1] - q[1]) + (p[2] - q[2]) * (p[2] - q[2])
_fill_nodata(image, nd_value, max_search_dist) ==
    LET valid == {q \in Cells(image.shape) : ~f_eq(image.at[q], nd_value)}
        near(p) == {q \in valid : Dist2(p, q) <= max_search_dist * max_search_dist}
        best(p) == CHOOSE q \in near(p) :
                      \A o \in near(p) :
                          \/ Dist2(p, q) < Dist2(p, o)
                          \/ Dist2(p, q) = Dist2(p, o) /\ q[1] < o[1]
                          \/ Dist2(p, q) = Dist2(p, o) /\ q[1] = o[1] /\ q[2] <= o[2]
    IN  [shape |-> image.shape,
         at |-> [p \in Cells(image.shape) |->
                    IF f_eq(image.at[p], nd_value) /\ near(p) # {}
                    THEN image.at[best(p)] ELSE image.at[p]]]

\* mask = image > no_data_threshold; image[mask] = nan; image[image == 0] = nan;
\* with factors: image[~mask] *= data[0]; image[~mask] += data[1]
to_physical(image, factors) ==
    [shape |-> image.shape,
     at |-> [rc \in Cells(image.shape) |->
                IF f_gt(image.at[rc], no_data_threshold) THEN NaN
                ELSE IF f_eq(image.at[rc], 0) THEN NaN
                ELSE IF Len(factors) = 2
                     THEN f_muladd(image.at[rc], factors[1], factors[2])
                     ELSE image.at[rc]]]

BandFailed(e) == [status |-> e, image |-> full(<<0, 0>>, NaN)]

\* the image must be at least 2x2
shape_assert(image_shape) == \A d \in 1..2 : image_shape[d] > 1

\* file: [is_band, band, has_dataset, dn, sdr, factors]; sdr = <<>> when the
\* file has no BANDSDR subdataset, factors = <<>> when it has no Factors.
process_band_file(file, g) ==
    IF ~file.is_band THEN BandFailed("AssertionError")
    ELSE IF ~file.has_dataset THEN BandFailed("SubDatasetNotFound")
    ELSE IF Len(file.sdr) # 0 /\ Len(file.sdr) # Len(file.dn) THEN BandFailed("IndexError")
    ELSE IF Len(file.dn) # Len(g.lonlat_mask) THEN BandFailed("IndexError")
    ELSE
    LET arr0 == IF Len(file.sdr) # 0 THEN apply_sdr_mask(file.dn, file.sdr) ELSE file.dn
        arr == BoolIndex(arr0, g.lonlat_mask)
    IN  IF Len(g.x_index) # Len(arr) \/ Len(g.y_index) # Len(arr)
        THEN BandFailed("AssertionError")
        ELSE IF ~shape_assert(g.out_image_shape) THEN BandFailed("AssertionError")
        ELSE [status |-> "ok",
              image |-> to_physical(
                  _fill_nodata(
                      zero_fill_codes(
                          flip(scatter(arr, g.x_index, g.y_index, g.out_image_shape))),
                      0, 10),
                  file.factors)]

\* ------------------------------------------------------ _process_band_files
\* a check that never finds every band failed
all_none_never(arrays) == FALSE

\* all(v is None for v in arrays)
all_none(arrays) == \A i \in 1..Len(arrays) : arrays[i].status # "ok"

\* a failed band filled with zeros
zero_band(shape) == full(shape, Fin(0))

\* np.full(shape, np.nan)
nan_band(shape) == full(shape, NaN)

NoBands(st) == [status |-> st, data |-> <<>>]

_process_band_files(g, files) ==
    IF Len(files) = 0 THEN NoBands("AssertionError")
    ELSE IF Cardinality({files[i].band : i \in 1..Len(files)}) # 1
    THEN NoBands("AssertionError")
    ELSE
    LET arrays == [i \in 1..Len(files) |-> process_band_file(files[i], g)]
        good == {i \in 1..Len(files) : arrays[i].status = "ok"}
    IN  IF all_none(arrays) THEN NoBands("ProcessingException")
        ELSE IF Cardinality({arrays[i].image.shape : i \in good}) = 0
        THEN NoBands("AssertionError")
        ELSE LET shape == arrays[SetMin(good)].image.shape
             IN  [status |-> "ok",
                  data |-> [i \in 1..Len(files) |->
                               IF arrays[i].status # "ok" THEN nan_band(shape)
                               ELSE arrays[i].image]]

\* ---------------------------------------------------------- process_fileset
\* utility.trim_nodata(bands, transform): the rows and columns that are not
\* nodata in every band, and the origin moved with the crop.
LiveRows(data, shape) ==
    {r \in 0..(shape[1] - 1) :
        \E i \in 1..Len(data), c \in 0..(shape[2] - 1) : ~isnan(data[i].at[<<r, c>>])}
LiveCols(data, shape) ==
    {c \in 0..(shape[2] - 1) :
        \E i \in 1..Len(data), r \in 0..(shape[1] - 1) : ~isnan(data[i].at[<<r, c>>])}

trim_nodata(data, origin, sc) ==
    LET shape == data[1].shape
        rows == LiveRows(data, shape)
        cols == LiveCols(data, shape)
    IN  IF rows = {} THEN [origin |-> origin, data |-> [i \in 1..Len(data) |-> full(<<0, 0>>, NaN)]]
        ELSE LET r0 == SetMin(rows)
                 c0 == SetMin(cols)
                 cut == <<SetMax(rows) - r0 + 1, SetMax(cols) - c0 + 1>>
             IN  [origin |-> <<origin[1] + c0 * sc, origin[2] - r0 * sc>>,
                  data |-> [i \in 1..Len(data) |->
                               [shape |-> cut,
                                at |-> [rc \in Cells(cut) |->
                                           data[i].at[<<rc[1] + r0, rc[2] + c0>>]]]]]

NoOutput == [written |-> FALSE, count |-> 0, height |-> 0, width |-> 0,
             origin |-> <<0, 0>>, data |-> <<>>]

\* _try_open_fileset: raises CorruptedFile for a file rasterio cannot open
corrupted(gf, files) == ~gf.opens \/ \E i \in 1..Len(files) : ~files[i].opens

\* process_fileset up to the call of process_geoloc_file
FilesetOpen ==
    /\ pc = "start"
    /\ IF Len(band_files) = 0 THEN pc' = "raised" /\ raised' = "InvalidData"
       ELSE IF corrupted(geofile, band_files)
       THEN pc' = "raised" /\ raised' = "CorruptedFile"
       ELSE pc' = "geoloc" /\ raised' = raised
    /\ UNCHANGED <<band_files, trim, bands, output_file>>
    /\ UNCHANGED geolocVars
    /\ UNCHANGED batchVars
    /\ UNCHANGED dynVars
    /\ UNCHANGED ndviVars
    /\ UNCHANGED bandVars

\* geoloc_file = process_geoloc_file(fileset.geoloc_file, scale, proj=proj)
FilesetGeoloc ==
    /\ pc = "geoloc"
    /\ \E cast \in [1..Len(proj_y) -> CastVals] :
          geoloc' = process_geoloc_file(geofile, lat, lon, proj_x, proj_y, scale, cast)
    /\ IF geoloc'.status = "ok" THEN pc' = "bands" /\ raised' = raised
       ELSE pc' = "raised" /\ raised' = geoloc'.status
    /\ UNCHANGED <<lat, lon, proj_x, proj_y, scale, geofile>>
    /\ UNCHANGED <<band_files, trim, bands, output_file>>
    /\ UNCHANGED batchVars
    /\ UNCHANGED dynVars
    /\ UNCHANGED ndviVars
    /\ UNCHANGED bandVars

\* bands = _process_band_files(geoloc_file, fileset.band_files)
FilesetBands ==
    /\ pc = "bands"
    /\ bands' = _process_band_files(geoloc, band_files)
    /\ IF bands'.status = "ok" THEN pc' = "write" /\ raised' = raised
       ELSE pc' = "raised" /\ raised' = bands'.status
    /\ UNCHANGED <<band_files, trim, output_file>>
    /\ UNCHANGED geolocVars
    /\ UNCHANGED batchVars
    /\ UNCHANGED dynVars
    /\ UNCHANGED ndviVars
    /\ UNCHANGED bandVars

\* the trim and rasterio.open(output_file, 'w', **meta).write(data)
FilesetWrite ==
    /\ pc = "write"
    /\ LET origin == <<geoloc.geotransform_min_x, geoloc.geotransform_max_y>>
           out == IF trim THEN trim_nodata(bands.data, origin, geoloc.scale)
                  ELSE [origin |-> origin, data |-> bands.data]
       IN  output_file' = [written |-> TRUE,
                           count |-> Len(out.data),
                           height |-> out.data[1].shape[1],
                           width |-> out.data[1].shape[2],
                           origin |-> out.origin,
                           data |-> out.data]
    /\ pc' = "done"
    /\ UNCHANGED <<band_files, trim, raised, bands>>
    /\ UNCHANGED geolocVars
    /\ UNCHANGED batchVars
    /\ UNCHANGED dynVars
    /\ UNCHANGED ndviVars
    /\ UNCHANGED bandVars

\* ---------------------------------------------------- the idle components
FilesetIdle ==
    /\ band_files = <<>>
    /\ trim = FALSE
    /\ pc = "idle"
    /\ raised = ""
    /\ bands = NoBands("not_run")
    /\ output_file = NoOutput

NoCloudMask == [given |-> FALSE, fails |-> FALSE, cls |-> <<>>]

NdviIdle ==
    /\ svi01 = <<>>
    /\ svi02 = <<>>
    /\ cloud_mask_file = NoCloudMask
    /\ ndvi_raster = <<>>

BandIdle ==
    /\ scattered = full(<<0, 0>>, NaN)
    /\ band_image = BandFailed("not_run")

\* ------------------------------------------------------------ ViirsProcessor
Dirs == {"a", "b"}
Filesets == 1..MaxFilesets
\* fileset.geoloc_file.band: the odd file sets are of band group I
BandOf(fs) == IF fs % 2 = 1 THEN "I" ELSE "M"

NoCall == [fileset |-> 0, composite |-> "", ndvi |-> "", recorded |-> FALSE]

BatchIdle ==
    /\ now = 1
    /\ mtime = [d \in Dirs |-> 0]
    /\ content = [d \in Dirs |-> <<>>]
    /\ db = {}
    /\ last_check_time = 0
    /\ run_pc = "idle"
    /\ run_dirs = {}
    /\ run_list = <<>>
    /\ run_pos = 0
    /\ run_invoked = <<>>
    /\ run_failed_at = 0
    /\ run_outcome = "none"
    /\ runs = 0
    /\ added = [fs \in Filesets |-> 0]
    /\ last_call = NoCall
    /\ logged = <<>>

\* persistence.has_fileset(fileset)
has_fileset(store, fs) == fs \in store

\* persistence.add_fileset(fileset)
add_fileset(store, fs) == store \cup {fs}

\* what process.process_fileset_out and process.process_ndvi may do for a
\* file set: return, or raise
CallOutcomes == {"ok", "raise"}

RECURSIVE Concat(_)
Concat(ss) == IF Len(ss) = 0 THEN <<>> ELSE ss[1] \o Concat(Tail(ss))

\* the directories in the order search_dirs lists them
DirList == <<"a", "b">>

\* _find_filesets(return_all=False): the file sets of the directories
\* modified at or after last_check_time
dir_is_recent(mt, last) == mt >= last
recent_dirs(mt, last) == {d \in Dirs : dir_is_recent(mt[d], last)}
_find_filesets(mt, cont, last) ==
    Concat([i \in 1..Len(DirList) |->
               IF dir_is_recent(mt[DirList[i]], last) THEN cont[DirList[i]] ELSE <<>>])

\* a _process_fileset that records the file set before its NDVI is made
_process_fileset_early(fs, composite, ndvi) ==
    IF composite # "ok"
    THEN [fileset |-> fs, composite |-> composite, ndvi |-> "", recorded |-> FALSE]
    ELSE [fileset |-> fs, composite |-> composite,
          ndvi |-> IF BandOf(fs) = "I" THEN ndvi ELSE "", recorded |-> TRUE]

\* _process_fileset(fileset), process_fileset_out ending as composite says and
\* process_ndvi as ndvi says: the composite, the NDVI of band group I, then
\* add_fileset.
_process_fileset(fs, composite, ndvi) ==
    IF composite # "ok"
    THEN [fileset |-> fs, composite |-> composite, ndvi |-> "", recorded |-> FALSE]
    ELSE IF BandOf(fs) = "I" /\ ndvi # "ok"
    THEN [fileset |-> fs, composite |-> composite, ndvi |-> ndvi, recorded |-> FALSE]
    ELSE [fileset |-> fs, composite |-> composite,
          ndvi |-> IF BandOf(fs) = "I" THEN ndvi ELSE "", recorded |-> TRUE]

\* a _set_last_check_time that stores nothing new
_set_last_check_time_stale(clock) == last_check_time

\* _set_last_check_time(): set_meta('last_check_time', datetime.now().timestamp())
_set_last_check_time(clock) == clock

\* an except branch that goes on with the next file set
except_continues == FALSE

\* except Exception: logger.exception(e); return
except_returns == TRUE

\* a new file set arrives in directory d
Deliver(d, fs) ==
    /\ \A e \in Dirs : \A i \in 1..Len(content[e]) : content[e][i] # fs
    /\ content' = [content EXCEPT ![d] = Append(@, fs)]
    /\ mtime' = [mtime EXCEPT ![d] = now]
    /\ now' = now + 1
    /\ UNCHANGED <<db, last_check_time, run_pc, run_dirs, run_list, run_pos,
                   run_invoked, run_failed_at, run_outcome, runs, added,
                   last_call, logged>>
    /\ UNCHANGED geolocVars
    /\ UNCHANGED filesetVars
    /\ UNCHANGED dynVars
    /\ UNCHANGED ndviVars
    /\ UNCHANGED bandVars

\* process_recent_files up to the loop: find_filesets and the first log line
RunStart ==
    /\ run_pc = "idle"
    /\ runs < MaxRuns
    /\ runs' = runs + 1
    /\ run_dirs' = recent_dirs(mtime, last_check_time)
    /\ run_list' = _find_filesets(mtime, content, last_check_time)
    /\ run_pos' = 1
    /\ run_invoked' = <<>>
    /\ run_failed_at' = 0
    /\ run_outcome' = "running"
    /\ run_pc' = "loop"
    /\ logged' = <<>>
    /\ UNCHANGED <<now, mtime, content, db, last_check_time, added, last_call>>
    /\ UNCHANGED geolocVars
    /\ UNCHANGED filesetVars
    /\ UNCHANGED dynVars
    /\ UNCHANGED ndviVars
    /\ UNCHANGED bandVars

\* one turn of the loop: the has_fileset test, then _process_fileset
RunFileset ==
    /\ run_pc = "loop"
    /\ run_pos <= Len(run_list)
    /\ LET fs == run_list[run_pos]
           known == has_fileset(db, fs)
           msgs == IF known THEN Append(logged, <<"already_present", fs>>) ELSE logged
       IN  \* the test only logs: there is no continue after it
           \E composite \in CallOutcomes, ndvi \in CallOutcomes :
                  LET call == _process_fileset(fs, composite, ndvi)
                  IN  /\ last_call' = call
                      /\ run_invoked' = Append(run_invoked, fs)
                      /\ db' = IF call.recorded THEN add_fileset(db, fs) ELSE db
                      /\ added' = IF call.recorded
                                  THEN [added EXCEPT ![fs] = @ + 1] ELSE added
                      /\ IF call.recorded
                         THEN /\ logged' = msgs
                              /\ run_pos' = run_pos + 1
                              /\ UNCHANGED <<run_failed_at, run_pc, run_outcome>>
                         ELSE /\ logged' = Append(msgs, <<"exception", fs>>)
                              /\ run_failed_at' =
                                    IF run_failed_at = 0 THEN run_pos ELSE run_failed_at
                              /\ IF except_returns
                                 THEN /\ run_pc' = "idle"
                                      /\ run_outcome' = "returned"
                                      /\ run_pos' = run_pos
                                 ELSE /\ run_pos' = run_pos + 1
                                      /\ UNCHANGED <<run_pc, run_outcome>>
    /\ UNCHANGED <<now, mtime, content, last_check_time, run_dirs, run_list, runs>>
    /\ UNCHANGED geolocVars
    /\ UNCHANGED filesetVars
    /\ UNCHANGED dynVars
    /\ UNCHANGED ndviVars
    /\ UNCHANGED bandVars

\* after the loop: self._set_last_check_time()
RunEnd ==
    /\ run_pc = "loop"
    /\ run_pos > Len(run_list)
    /\ last_check_time' = _set_last_check_time(now)
    /\ now' = now + 1
    /\ run_pc' = "idle"
    /\ run_outcome' = "returned"
    /\ UNCHANGED <<mtime, content, db, run_dirs, run_list, run_pos, run_invoked,
                   run_failed_at, runs, added, last_call, logged>>
    /\ UNCHANGED geolocVars
    /\ UNCHANGED filesetVars
    /\ UNCHANGED dynVars
    /\ UNCHANGED ndviVars
    /\ UNCHANGED bandVars

\* ----------------------------------------------------- process_ndvi_dynamics
\* The rasters' finite values count thousandths: Fin(-2000) is the cloud
\* value -2, Fin(-999000) is -999, and a quotient is rounded to the nearest
\* thousandth as the float division rounds to the nearest float.
f_neg(a) ==
    IF a.k = "fin" THEN Fin(-a.v)
    ELSE IF a.k = "inf" THEN NInf
    ELSE IF a.k = "ninf" THEN PInf
    ELSE NaN

f_add(a, b) ==
    IF a.k = "nan" \/ b.k = "nan" THEN NaN
    ELSE IF a.k = "fin" /\ b.k = "fin" THEN Fin(a.v + b.v)
    ELSE IF a.k = "fin" THEN b
    ELSE IF b.k = "fin" THEN a
    ELSE IF a.k = b.k THEN a
    ELSE NaN

f_sub(a, b) == f_add(a, f_neg(b))

\* 100 * a
f_times100(a) == IF a.k = "fin" THEN Fin(100 * a.v) ELSE a

f_sign(a) ==
    IF a.k = "inf" THEN 1
    ELSE IF a.k = "ninf" THEN -1
    ELSE IF a.v > 0 THEN 1
    ELSE IF a.v < 0 THEN -1
    ELSE 0

\* a / b: a division by zero gives an infinity or NaN, and no exception
f_div(a, b) ==
    IF a.k = "nan" \/ b.k = "nan" THEN NaN
    ELSE IF a.k # "fin" /\ b.k # "fin" THEN NaN
    ELSE IF b.k # "fin" THEN Fin(0)
    ELSE IF b.v = 0
         THEN IF f_sign(a) = 0 THEN NaN ELSE IF f_sign(a) > 0 THEN PInf ELSE NInf
    ELSE IF a.k # "fin"
         THEN IF f_sign(a) * f_sign(b) > 0 THEN PInf ELSE NInf
    ELSE IF b.v > 0 THEN Fin(np_round(1000 * a.v, b.v))
    ELSE Fin(np_round(-1000 * a.v, -b.v))

f_above(a, n) == a.k = "inf" \/ (a.k = "fin" /\ a.v > n)
f_below(a, n) == a.k = "ninf" \/ (a.k = "fin" /\ a.v < n)

\* a calc_ndvi_dynamics without the lower clamp
calc_ndvi_dynamics_upper(b1, b2) ==
    [i \in 1..Len(b1) |->
        LET data == f_div(f_times100(f_sub(b2[i], b1[i])), b1[i])
        IN  IF f_above(data, 998000) THEN Fin(998000) ELSE data]

\* data = 100 * (b2 - b1) / b1; data[data > 998] = 998; data[data < -998] = -998
calc_ndvi_dynamics(b1, b2) ==
    [i \in 1..Len(b1) |->
        LET data == f_div(f_times100(f_sub(b2[i], b1[i])), b1[i])
        IN  IF f_above(data, 998000) THEN Fin(998000)
            ELSE IF f_below(data, -998000) THEN Fin(-998000)
            ELSE data]

\* nan_mask = np.isnan(b1_data) | np.isnan(b2_data)
nan_mask(b1, b2) == [i \in 1..Len(b1) |-> isnan(b1[i]) \/ isnan(b2[i])]

\* cloud_mask = (b1_data == -2) | (b2_data == -2)
cloud_mask(b1, b2) == [i \in 1..Len(b1) |-> f_eq(b1[i], -2000) \/ f_eq(b2[i], -2000)]

\* a[mask] = values: the k-th selected element takes values[k]
Rank(mask, i) == Cardinality({j \in 1..i : mask[j]})
mask_assign(a, mask, values) ==
    [i \in 1..Len(a) |-> IF mask[i] THEN values[Rank(mask, i)] ELSE a[i]]

\* a[mask] = value
mask_fill(a, mask, value) == [i \in 1..Len(a) |-> IF mask[i] THEN value ELSE a[i]]

process_ndvi_dynamics(b1, b2) ==
    LET nans == nan_mask(b1, b2)
        clouds == cloud_mask(b1, b2)
        data_mask == [i \in 1..Len(b1) |-> ~nans[i] /\ ~clouds[i]]
        empty == [i \in 1..Len(b1) |-> NaN]
        dyn == calc_ndvi_dynamics(BoolIndex(b1, data_mask), BoolIndex(b2, data_mask))
    IN  mask_fill(mask_assign(empty, data_mask, dyn), clouds, Fin(-999000))

DynIdle ==
    /\ b1_data = <<>>
    /\ b2_data = <<>>
    /\ b3 = <<>>

DynVals == {NaN, PInf, Fin(-2000), Fin(0), Fin(1), Fin(-300), Fin(800), Fin(2000)}

DynInit ==
    /\ lat = <<>> /\ lon = <<>> /\ proj_x = <<>> /\ proj_y = <<>>
    /\ scale = 2
    /\ geofile = [is_geoloc |-> TRUE, has_latlon |-> TRUE, opens |-> TRUE]
    /\ geoloc = NoGeoloc("not_run")
    /\ FilesetIdle
    /\ BatchIdle
    /\ \E n \in 1..MaxDynPixels :
          /\ b1_data \in [1..n -> DynVals]
          /\ b2_data \in [1..n -> DynVals]
    /\ b3 = <<>>
    /\ NdviIdle
    /\ BandIdle

\* process_ndvi_dynamics from the cropped pair to the raster written
ProcessNdviDynamics ==
    /\ b3 = <<>>
    /\ b3' = process_ndvi_dynamics(b1_data, b2_data)
    /\ UNCHANGED <<b1_data, b2_data>>
    /\ UNCHANGED geolocVars
    /\ UNCHANGED filesetVars
    /\ UNCHANGED batchVars
    /\ UNCHANGED ndviVars
    /\ UNCHANGED bandVars

DynNext == ProcessNdviDynamics

SpecDyn == DynInit /\ [][DynNext]_vars

DynWritten == Len(b3) > 0
IsCloud(f) == f.k = "fin" /\ f.v = -2000
\* n / d > b, and n / d < -b
QuotAbove(n, d, b) == IF d > 0 THEN n > b * d ELSE n < b * d
QuotBelow(n, d, b) == IF d > 0 THEN n < (-b) * d ELSE n > (-b) * d
InClamp(f) == f.k = "fin" /\ -998000 <= f.v /\ f.v <= 998000
Abs(n) == IF n < 0 THEN -n ELSE n

\* C10: every pixel of the output is -999 where b1 or b2 is the cloud value
\* -2 (also beside a NaN); otherwise NaN where b1 or b2 is NaN; otherwise
\* 100 * (b2 - b1) / b1 clamped to [-998, 998]: the quotient itself (to the
\* nearest thousandth) when it lies inside, the bound it passes otherwise, a
\* division by zero giving the bound of its sign, or NaN for 0 / 0.  So every
\* pixel is NaN, -999 or a value of [-998, 998].
C10_DynamicsPixels ==
    DynWritten =>
        /\ Len(b3) = Len(b1_data)
        /\ \A i \in 1..Len(b1_data) :
              LET p == b1_data[i]
                  q == b2_data[i]
                  out == b3[i]
              IN  /\ (out.k = "nan" \/ out = Fin(-999000) \/ InClamp(out))
                  /\ (IsCloud(p) \/ IsCloud(q)) => out = Fin(-999000)
                  /\ (~IsCloud(p) /\ ~IsCloud(q) /\ (p.k = "nan" \/ q.k = "nan"))
                        => out.k = "nan"
                  /\ (~IsCloud(p) /\ ~IsCloud(q) /\ p.k = "fin" /\ q.k = "fin")
                        => LET n == 100000 * (q.v - p.v)
                               d == p.v
                           IN  IF d = 0
                               THEN IF n > 0 THEN out = Fin(998000)
                                    ELSE IF n < 0 THEN out = Fin(-998000)
                                    ELSE out.k = "nan"
                               ELSE /\ InClamp(out)
                                    /\ QuotAbove(n, d, 998000) => out.v = 998000
                                    /\ QuotBelow(n, d, 998000) => out.v = -998000
                                    /\ (~QuotAbove(n, d, 998000) /\ ~QuotBelow(n, d, 998000))
                                          => 2 * Abs(out.v * d - n) <= Abs(d)

C10_Witness ==
    /\ DynWritten
    /\ Len(b1_data) = 2
    /\ b1_data[1] = NaN /\ b2_data[1] = Fin(-2000) /\ b3[1] = Fin(-999000)
    /\ b1_data[2] = Fin(1) /\ b2_data[2] = Fin(-300) /\ b3[2] = Fin(-998000)

\* ------------------------------------------------------------- process_ndvi
\* The bands' finite values count thousandths, as the dynamics rasters' do.

\* a quotient that answers NaN for every zero denominator
ndvi_ratio_guarded(red, nir) ==
    IF f_eq(f_add(red, nir), 0) THEN NaN
    ELSE f_div(f_sub(nir, red), f_add(red, nir))

\* the quotient turned over
ndvi_ratio_inverted(red, nir) == f_div(f_add(red, nir), f_sub(nir, red))

\* (svi02 - svi01) / (svi01 + svi02), for one pixel
ndvi_ratio(red, nir) == f_div(f_sub(nir, red), f_add(red, nir))

\* utility.apply_mask(data, transform, mask, mask_transform, value): the mask
\* brought to the data's grid, and value written wherever it is set.  mask is
\* given on the data's grid here.
apply_mask(data, mask, value) ==
    [i \in 1..Len(data) |-> IF mask[i] THEN value ELSE data[i]]

\* cmf: [given, fails, cls]; cls is the classification on the NDVI grid, fails
\* says that reading or applying it raises (the except branch logs and goes on)
process_ndvi(b1, b2, cmf) ==
    LET ratio == [i \in 1..Len(b1) |-> ndvi_ratio(b1[i], b2[i])]
    IN  IF cmf.given /\ ~cmf.fails
        THEN apply_mask(ratio, [i \in 1..Len(b1) |-> cmf.cls[i] = 4], Fin(-2000))
        ELSE ratio

NdviVals == {NaN, PInf, Fin(-1000), Fin(0), Fin(1000), Fin(3000)}
ClsVals == {0, 4}

CloudMaskFiles(n) ==
    {NoCloudMask, [given |-> TRUE, fails |-> TRUE, cls |-> <<>>]}
        \cup {[given |-> TRUE, fails |-> FALSE, cls |-> c] : c \in [1..n -> ClsVals]}

NdviInit ==
    /\ lat = <<>> /\ lon = <<>> /\ proj_x = <<>> /\ proj_y = <<>>
    /\ scale = 2
    /\ geofile = [is_geoloc |-> TRUE, has_latlon |-> TRUE, opens |-> TRUE]
    /\ geoloc = NoGeoloc("not_run")
    /\ FilesetIdle
    /\ BatchIdle
    /\ DynIdle
    /\ BandIdle
    /\ \E n \in 1..MaxNdviPixels :
          /\ svi01 \in [1..n -> NdviVals]
          /\ svi02 \in [1..n -> NdviVals]
          /\ cloud_mask_file \in CloudMaskFiles(n)
    /\ ndvi_raster = <<>>

\* process_ndvi from the two bands read to the raster written
ProcessNdvi ==
    /\ ndvi_raster = <<>>
    /\ ndvi_raster' = process_ndvi(svi01, svi02, cloud_mask_file)
    /\ UNCHANGED <<svi01, svi02, cloud_mask_file>>
    /\ UNCHANGED geolocVars
    /\ UNCHANGED filesetVars
    /\ UNCHANGED batchVars
    /\ UNCHANGED dynVars
    /\ UNCHANGED bandVars

NdviNext == ProcessNdvi

SpecNdvi == NdviInit /\ [][NdviNext]_vars

NdviWritten == Len(ndvi_raster) > 0
\* pixel i is classified as cloud and the mask was applied
CloudMasked(i) ==
    cloud_mask_file.given /\ ~cloud_mask_file.fails /\ cloud_mask_file.cls[i] = 4
\* red + nir == 0 at pixel i
ZeroSum(i) ==
    svi01[i].k = "fin" /\ svi02[i].k = "fin" /\ svi01[i].v + svi02[i].v = 0
InUnit(f) == f.k = "fin" /\ -1000 <= f.v /\ f.v <= 1000

\* C11 as stated: every pixel whose red + nir is 0 is NaN in the NDVI written,
\* whatever red and nir are, nir - red # 0 included.
C11_ZeroSumIsNaN ==
    NdviWritten => \A i \in 1..Len(svi01) : ZeroSum(i) => isnan(ndvi_raster[i])

\* C11 as amended: a pixel whose red + nir is 0 and which is not cloud-masked
\* is NaN when nir - red is 0 as well (0 / 0), +inf when nir - red > 0 and
\* -inf when nir - red < 0; a cloud-masked one is -2; no exception is raised.
C11_ZeroSumIsNaNOrInf ==
    NdviWritten =>
        /\ Len(ndvi_raster) = Len(svi01)
        /\ \A i \in 1..Len(svi01) :
              ZeroSum(i) =>
                  IF CloudMasked(i) THEN ndvi_raster[i] = Fin(-2000)
                  ELSE IF svi02[i].v - svi01[i].v = 0 THEN ndvi_raster[i] = NaN
                  ELSE IF svi02[i].v - svi01[i].v > 0 THEN ndvi_raster[i] = PInf
                  ELSE ndvi_raster[i] = NInf

C11_Witness ==
    /\ NdviWritten
    /\ Len(svi01) = 2
    /\ ~CloudMasked(1) /\ ~CloudMasked(2)
    /\ svi01[1] = Fin(0) /\ svi02[1] = Fin(0) /\ ndvi_raster[1] = NaN
    /\ svi01[2] = Fin(-1000) /\ svi02[2] = Fin(1000) /\ ndvi_raster[2] = PInf

\* C12 as stated: every pixel whose red and nir are finite, whose red + nir is
\* not 0 and which is not cloud-masked has its NDVI in [-1, 1].
C12_FiniteInUnit ==
    NdviWritten =>
        \A i \in 1..Len(svi01) :
            (/\ svi01[i].k = "fin" /\ svi02[i].k = "fin"
             /\ ~ZeroSum(i) /\ ~CloudMasked(i))
                => InUnit(ndvi_raster[i])

\* C12 as amended: every pixel whose red and nir are finite and not negative,
\* whose red + nir is not 0 and which is not cloud-masked has its NDVI in
\* [-1, 1].
C12_NonNegativeInUnit ==
    NdviWritten =>
        \A i \in 1..Len(svi01) :
            (/\ svi01[i].k = "fin" /\ svi02[i].k = "fin"
             /\ svi01[i].v >= 0 /\ svi02[i].v >= 0
             /\ ~ZeroSum(i) /\ ~CloudMasked(i))
                => InUnit(ndvi_raster[i])

C12_Witness ==
    /\ NdviWritten
    /\ Len(svi01) = 2
    /\ cloud_mask_file.given /\ CloudMasked(1) /\ ~CloudMasked(2)
    /\ svi01[2] = Fin(1000) /\ svi02[2] = Fin(3000) /\ ndvi_raster[2] = Fin(500)
    /\ ndvi_raster[1] = Fin(-2000)

\* ------------------------------------------------------- geolocation inputs
LatVals == {-200, 55}
LonVals == {-999, 82}
ScaleVals == {2, 3}
XVals == {Fin(1), Fin(3), Fin(6), PInf}
YVals == {Fin(-7), Fin(1), Fin(6), NaN}

GeoFiles ==
    {[is_geoloc |-> TRUE, has_latlon |-> TRUE, opens |-> TRUE],
     [is_geoloc |-> TRUE, has_latlon |-> FALSE, opens |-> TRUE],
     [is_geoloc |-> FALSE, has_latlon |-> TRUE, opens |-> TRUE]}

GoodGeoFile == [is_geoloc |-> TRUE, has_latlon |-> TRUE, opens |-> TRUE]

NValid(lo, la) == Len(BoolIndex(lo, lonlat_mask(lo, la)))

GeolocInit ==
    /\ geofile \in GeoFiles
    /\ scale \in ScaleVals
    /\ \E n \in 0..MaxSamples :
          /\ n > 0 => geofile = GoodGeoFile
          /\ lat \in [1..n -> LatVals]
          /\ lon \in [1..n -> LonVals]
    /\ proj_x \in [1..NValid(lon, lat) -> XVals]
    /\ proj_y \in [1..NValid(lon, lat) -> YVals]
    /\ geoloc = NoGeoloc("not_run")
    /\ FilesetIdle
    /\ BatchIdle
    /\ DynIdle
    /\ NdviIdle
    /\ BandIdle

\* geoloc_file = process_geoloc_file(fileset.geoloc_file, scale, proj=proj)
ProcessGeolocFile ==
    /\ geoloc.status = "not_run"
    /\ \E cast \in [1..Len(proj_y) -> CastVals] :
          geoloc' = process_geoloc_file(geofile, lat, lon, proj_x, proj_y, scale, cast)
    /\ UNCHANGED <<lat, lon, proj_x, proj_y, scale, geofile>>
    /\ UNCHANGED filesetVars
    /\ UNCHANGED batchVars
    /\ UNCHANGED dynVars
    /\ UNCHANGED ndviVars
    /\ UNCHANGED bandVars

GeolocNext == ProcessGeolocFile

SpecGeoloc == GeolocInit /\ [][GeolocNext]_vars

GeolocRan == geoloc.status # "not_run"
GeolocReadLatLon == GeolocRan /\ geofile = GoodGeoFile

\* C6: whenever at least one pixel is geodetically valid, the out_image_shape
\* process_geoloc_file produces has both dimensions >= 2.
C6_ShapeAtLeast2x2 ==
    (geoloc.status = "ok" /\ NValid(lon, lat) >= 1)
        => (geoloc.out_image_shape[1] >= 2 /\ geoloc.out_image_shape[2] >= 2)

\* C7 as stated: when the validity mask selects zero pixels,
\* process_geoloc_file fails with InvalidData.
C7_ZeroValidIsInvalidData ==
    (GeolocReadLatLon /\ NValid(lon, lat) = 0) => geoloc.status = "InvalidData"

\* C7 as amended: when the validity mask selects zero pixels,
\* process_geoloc_file fails with the ValueError of the minimum of a zero-size
\* array, and produces no index.
C7_ZeroValidIsValueError ==
    (GeolocReadLatLon /\ NValid(lon, lat) = 0) => geoloc.status = "ValueError"

C7_Witness ==
    /\ GeolocReadLatLon
    /\ Len(lat) >= 2
    /\ NValid(lon, lat) = 0
    /\ geoloc.status = "ValueError"

\* C8: process_geoloc_file produces no index whenever a projected coordinate,
\* of the x array or of the y array, is not finite.
C8_NonFiniteFails ==
    (GeolocReadLatLon /\ (~all_isfinite(proj_x) \/ ~all_isfinite(proj_y)))
        => geoloc.status # "ok"

\* C9: every valid sample gets exactly one (row, col) = (y_index, x_index)
\* inside out_image_shape; x_index and y_index are as long as the number of
\* samples the validity mask selects.
C9_IndexInShape ==
    geoloc.status = "ok" =>
        /\ Len(geoloc.x_index) = NValid(lon, lat)
        /\ Len(geoloc.y_index) = NValid(lon, lat)
        /\ \A i \in 1..NValid(lon, lat) :
              /\ 0 <= geoloc.y_index[i] /\ geoloc.y_index[i] < geoloc.out_image_shape[1]
              /\ 0 <= geoloc.x_index[i] /\ geoloc.x_index[i] < geoloc.out_image_shape[2]

C9_Witness ==
    /\ geoloc.status = "ok"
    /\ NValid(lon, lat) >= 2
    /\ NValid(lon, lat) < Len(lat)
    /\ geoloc.out_image_shape[1] >= 2
    /\ geoloc.out_image_shape[2] >= 2
    /\ \E i, j \in 1..NValid(lon, lat) :
          /\ geoloc.x_index[i] # geoloc.x_index[j]
          /\ geoloc.y_index[i] = geoloc.out_image_shape[1] - 1
          /\ geoloc.y_index[j] = 0

\* ----------------------------------------------------------- fileset inputs
\* The band descriptors of a file set whose datasets hold n samples.
BandFiles(n) ==
    {[is_band |-> TRUE, band |-> "I", has_dataset |-> TRUE, opens |-> TRUE,
      dn |-> [i \in 1..n |-> 10 * i], sdr |-> <<>>, factors |-> <<2, 1>>],
     [is_band |-> TRUE, band |-> "I", has_dataset |-> TRUE, opens |-> TRUE,
      dn |-> [i \in 1..n |-> IF i = 1 THEN ND_OBPT ELSE 7],
      sdr |-> [i \in 1..n |-> IF i = 2 THEN 64 ELSE 0], factors |-> <<>>],
     [is_band |-> TRUE, band |-> "I", has_dataset |-> FALSE, opens |-> TRUE,
      dn |-> <<>>, sdr |-> <<>>, factors |-> <<>>],
     [is_band |-> FALSE, band |-> "I", has_dataset |-> TRUE, opens |-> TRUE,
      dn |-> [i \in 1..n |-> 5], sdr |-> <<>>, factors |-> <<>>],
     [is_band |-> TRUE, band |-> "I", has_dataset |-> TRUE, opens |-> TRUE,
      dn |-> [i \in 1..(n + 1) |-> 5], sdr |-> <<>>, factors |-> <<>>],
     [is_band |-> TRUE, band |-> "M", has_dataset |-> TRUE, opens |-> TRUE,
      dn |-> [i \in 1..n |-> 3 * i], sdr |-> <<>>, factors |-> <<>>],
     [is_band |-> TRUE, band |-> "I", has_dataset |-> TRUE, opens |-> FALSE,
      dn |-> <<>>, sdr |-> <<>>, factors |-> <<>>]}

FsXVals == {Fin(1), Fin(3)}
FsYVals == {Fin(1), Fin(3)}

FilesetInit ==
    /\ geofile = GoodGeoFile
    /\ scale = 2
    /\ \E n \in 0..MaxPixels :
          /\ lat \in [1..n -> LatVals]
          /\ lon \in [1..n -> {82}]
          /\ \E k \in 0..MaxBands : band_files \in [1..k -> BandFiles(n)]
    /\ proj_x \in [1..NValid(lon, lat) -> FsXVals]
    /\ proj_y \in [1..NValid(lon, lat) -> FsYVals]
    /\ geoloc = NoGeoloc("not_run")
    /\ trim \in BOOLEAN
    /\ pc = "start"
    /\ raised = ""
    /\ bands = NoBands("not_run")
    /\ output_file = NoOutput
    /\ BatchIdle
    /\ DynIdle
    /\ NdviIdle
    /\ BandIdle

FilesetNext == FilesetOpen \/ FilesetGeoloc \/ FilesetBands \/ FilesetWrite

SpecFileset == FilesetInit /\ [][FilesetNext]_vars

\* _process_band_files has returned or raised
BandsRan == bands.status # "not_run"
\* the file set's invariant: at least one band, all of one spectral group
OneBandGroup ==
    /\ Len(band_files) > 0
    /\ \A i, j \in 1..Len(band_files) : band_files[i].band = band_files[j].band
BandOk(i) == process_band_file(band_files[i], geoloc).status = "ok"
AllNaN(grid) == \A rc \in Cells(grid.shape) : isnan(grid.at[rc])

\* C1: for a non-empty list of n band descriptors (of one spectral group) of
\* which at least one is rasterized, _process_band_files returns n bands in
\* input order: a band whose process_band_file raised is an all-NaN grid of
\* the successful bands' shape, every other band is its own rasterization.
C1_StackKeepsEveryBand ==
    (BandsRan /\ OneBandGroup /\ \E j \in 1..Len(band_files) : BandOk(j)) =>
        /\ bands.status = "ok"
        /\ Len(bands.data) = Len(band_files)
        /\ \A i \in 1..Len(band_files) :
              IF BandOk(i)
              THEN bands.data[i] = process_band_file(band_files[i], geoloc).image
              ELSE /\ AllNaN(bands.data[i])
                   /\ \A j \in 1..Len(band_files) :
                         BandOk(j) => bands.data[i].shape = bands.data[j].shape

C1_Witness ==
    /\ bands.status = "ok"
    /\ Len(band_files) >= 2
    /\ ~BandOk(1)
    /\ BandOk(2)
    /\ AllNaN(bands.data[1])
    /\ ~AllNaN(bands.data[2])
    /\ bands.data[1].shape = <<2, 2>>

\* C2: when process_band_file raises for every band descriptor,
\* _process_band_files raises ProcessingException and returns no composite,
\* and process_fileset writes no output file.
C2_AllFailedRaises ==
    (BandsRan /\ OneBandGroup /\ \A j \in 1..Len(band_files) : ~BandOk(j)) =>
        /\ bands.status = "ProcessingException"
        /\ bands.data = <<>>
        /\ pc = "raised"
        /\ raised = "ProcessingException"
        /\ ~output_file.written

C2_Witness ==
    /\ BandsRan
    /\ Len(band_files) >= 2
    /\ \A j \in 1..Len(band_files) : ~BandOk(j)
    /\ \E j \in 1..Len(band_files) : band_files[j].has_dataset /\ band_files[j].is_band
    /\ raised = "ProcessingException"
    /\ ~output_file.written

\* process_fileset has written a composite
FilesetWritten == pc = "done" /\ output_file.written

\* -------------------------------------------------- one band's rasterization
\* arr = arr[geoloc_file.lonlat_mask], after the BANDSDR codes: the masked
\* sample array the scatter iterates over
masked_samples(file, g) ==
    BoolIndex(IF Len(file.sdr) # 0 THEN apply_sdr_mask(file.dn, file.sdr) ELSE file.dn,
              g.lonlat_mask)

DnVals == {5, 9}

\* The band descriptors whose dataset holds n samples.
BandSamples(n) ==
    {[is_band |-> TRUE, band |-> "I", has_dataset |-> TRUE, opens |-> TRUE,
      dn |-> d, sdr |-> <<>>, factors |-> f] :
        d \in [1..n -> DnVals], f \in {<<>>, <<2, 1>>}}

BandInit ==
    /\ geofile = GoodGeoFile
    /\ scale = 2
    /\ \E n \in 0..MaxSamples :
          /\ lat \in [1..n -> LatVals]
          /\ lon \in [1..n -> {82}]
          /\ band_files \in [1..1 -> BandSamples(n)]
    /\ proj_x \in [1..NValid(lon, lat) -> FsXVals]
    /\ proj_y \in [1..NValid(lon, lat) -> FsYVals]
    /\ geoloc = NoGeoloc("not_run")
    /\ trim = FALSE
    /\ pc = "idle"
    /\ raised = ""
    /\ bands = NoBands("not_run")
    /\ output_file = NoOutput
    /\ BatchIdle
    /\ DynIdle
    /\ NdviIdle
    /\ BandIdle

\* process_band_file(file, geoloc_file) for the band descriptor; scattered is
\* the image as the scatter leaves it, before the flip
ProcessBandFile ==
    /\ geoloc.status = "ok"
    /\ band_image.status = "not_run"
    /\ band_image' = process_band_file(band_files[1], geoloc)
    /\ scattered' = IF band_image'.status = "ok"
                    THEN scatter(masked_samples(band_files[1], geoloc),
                                 geoloc.x_index, geoloc.y_index, geoloc.out_image_shape)
                    ELSE scattered
    /\ UNCHANGED geolocVars
    /\ UNCHANGED filesetVars
    /\ UNCHANGED batchVars
    /\ UNCHANGED dynVars
    /\ UNCHANGED ndviVars

BandNext == ProcessGeolocFile \/ ProcessBandFile

SpecBand == BandInit /\ [][BandNext]_vars

\* process_band_file went through its scatter
BandScattered == band_image.status = "ok"
\* the positions of the masked sample array that map to cell rc
MapsTo(rc) ==
    {i \in 1..Len(geoloc.x_index) :
        geoloc.y_index[i] = rc[1] /\ geoloc.x_index[i] = rc[2]}

\* C13: after process_band_file's scatter, a cell several masked samples map
\* to holds the value of the one that comes last in the masked sample array,
\* and a cell no sample maps to is 0 (before the flip and the gap fill).
C13_LastSampleWins ==
    BandScattered =>
        /\ scattered.shape = geoloc.out_image_shape
        /\ \A rc \in Cells(geoloc.out_image_shape) :
              IF MapsTo(rc) = {} THEN scattered.at[rc] = Fin(0)
              ELSE \E i \in MapsTo(rc) :
                      /\ \A j \in MapsTo(rc) : j <= i
                      /\ scattered.at[rc] =
                            Fin(masked_samples(band_files[1], geoloc)[i])

C13_Witness ==
    /\ BandScattered
    /\ \E rc \in Cells(geoloc.out_image_shape) : MapsTo(rc) = {}
    /\ \E rc \in Cells(geoloc.out_image_shape) :
          \E i, j \in MapsTo(rc) :
              /\ i < j
              /\ masked_samples(band_files[1], geoloc)[i]
                    # masked_samples(band_files[1], geoloc)[j]
              /\ scattered.at[rc] = Fin(masked_samples(band_files[1], geoloc)[j])

\* ------------------------------------------------------------ the batch runs
BatchInit ==
    /\ lat = <<>> /\ lon = <<>> /\ proj_x = <<>> /\ proj_y = <<>>
    /\ scale = 2
    /\ geofile = GoodGeoFile
    /\ geoloc = NoGeoloc("not_run")
    /\ FilesetIdle
    /\ BatchIdle
    /\ DynIdle
    /\ NdviIdle
    /\ BandIdle

BatchNext ==
    \/ \E d \in Dirs, fs \in Filesets : Deliver(d, fs)
    \/ RunStart
    \/ RunFileset
    \/ RunEnd

SpecBatch == BatchInit /\ [][BatchNext]_vars

\* this step calls _process_fileset(fs)
Invokes(fs) == run_invoked' = Append(run_invoked, fs)

\* C3: a file set for which has_fileset is true is not processed again:
\* no step calls _process_fileset for it, or add_fileset a second time.
C3_RecordedNotReprocessed ==
    [][\A fs \in Filesets :
          has_fileset(db, fs) => (~Invokes(fs) /\ added'[fs] = added[fs])]_vars

\* C4: add_fileset is called for a file set only by a _process_fileset call
\* whose composite, and NDVI for band group I, ended without raising, and a
\* call in which a step raised records nothing; the file sets of a run are
\* processed one at a time, in list order.
C4_RecordedAfterProcessing ==
    /\ [](/\ Len(run_invoked) <= Len(run_list)
          /\ run_invoked = SubSeq(run_list, 1, Len(run_invoked))
          /\ (last_call.composite = "raise" \/ last_call.ndvi = "raise")
                => ~last_call.recorded)
    /\ [][\A fs \in Filesets :
            (added'[fs] # added[fs] \/ (fs \in db' /\ fs \notin db)) =>
                /\ Invokes(fs)
                /\ added'[fs] = added[fs] + 1
                /\ last_call'.fileset = fs
                /\ last_call'.composite = "ok"
                /\ BandOf(fs) = "I" => last_call'.ndvi = "ok"]_vars

C4_Witness ==
    /\ Len(run_list) = 2
    /\ run_invoked = run_list
    /\ last_call.recorded
    /\ BandOf(last_call.fileset) = "I"
    /\ last_call.ndvi = "ok"
    /\ db = {1, 2}

\* C5: when the processing of a file set raises, the run is over: no later
\* file set of the list is processed or recorded in that run, the exception is
\* logged, and process_recent_files returns.
C5_ExceptionEndsRun ==
    run_failed_at # 0 =>
        /\ run_pc = "idle"
        /\ run_outcome = "returned"
        /\ Len(run_invoked) = run_failed_at
        /\ ~last_call.recorded
        /\ last_call.fileset = run_list[run_failed_at]
        /\ logged[Len(logged)] = <<"exception", run_list[run_failed_at]>>

C5_Witness ==
    /\ run_failed_at = 1
    /\ Len(run_list) = 2
    /\ run_pc = "idle"
    /\ run_list[2] \notin db
    /\ runs = 1

\* this step ends a process_recent_files call
RunReturns == run_pc = "loop" /\ run_pc' = "idle"
\* this step starts the call that follows an aborted one
RunAfterAbort == run_pc = "idle" /\ run_pc' = "loop" /\ run_failed_at # 0

\* C14: last_check_time changes only in the step that ends a run in which no
\* file set raised, and every such run sets it to the clock (the run that
\* found no file set included) after processing and recording every file set
\* it found; a run ended by an exception leaves last_check_time as it was,
\* and the run after it scans again every directory, and finds again every
\* file set, the aborted run had.
C14_CheckTimeOnlyAfterCleanRun ==
    [][/\ last_check_time' # last_check_time => (RunReturns /\ run_failed_at' = 0)
       /\ RunReturns =>
             IF run_failed_at' = 0
             THEN /\ run_invoked' = run_list'
                  /\ \A i \in 1..Len(run_list') : has_fileset(db', run_list'[i])
                  /\ last_check_time' = now
                  /\ last_check_time' > last_check_time
             ELSE last_check_time' = last_check_time
       /\ RunAfterAbort =>
             /\ run_dirs \subseteq run_dirs'
             /\ \A i \in 1..Len(run_list) :
                   \E j \in 1..Len(run_list') : run_list'[j] = run_list[i]]_vars

C14_Witness ==
    /\ runs = 2
    /\ run_pc = "loop"
    /\ last_check_time = 0
    /\ db # {}
    /\ run_dirs = Dirs
    /\ Len(run_list) = 2

====
